---- MODULE Spec2Model ----
(***************************************************************************)
(* The table / elem-segment grammar of the wast crate                      *)
(* (crates/wast/src/ast/table.rs) as a state machine over a token cursor.  *)
(* One action per parser call of Table::parse, Elem::parse,                *)
(* ElemPayload::parse and ElemPayload::parse_tail.  The parser core        *)
(* (peek, peek2, lookahead1, parens, is_empty) and the leaf grammars       *)
(* (Id, u32, &str, Index, TableElemType, TableType, InlineExport,          *)
(* Expression) live in other files of the crate and are modelled from      *)
(* the specification's description of them.                                *)
(*                                                                         *)
(* A second state machine, SpecCmp, is binary_compare of tests/wabt.rs     *)
(* over pairs of byte sequences, with the section reader it calls          *)
(* (wasmparser's ModuleReader) modelled from the binary format.            *)
(***************************************************************************)
EXTENDS Integers, Sequences, FiniteSets, TLC

VARIABLES
    toks,      \* the token stream of one module field, parentheses included
    pos,       \* the cursor: index of the next token (Len(toks)+1 = end of input)
    pc,        \* the parser call about to run
    span,      \* Table.span / Elem.span       (Option: <<>> or <<p>>)
    name,      \* Table.name / Elem.name       (Option<Id>)
    exports,   \* Table.exports                (sequence of export names)
    kind,      \* tag of TableKind / ElemKind  ("" while undecided)
    import,    \* TableKind::Import {module, name}   (Option<<module, name>>)
    tabty,     \* the ast::TableType of Normal / Import    (Option)
    elem,      \* TableKind::Inline.elem       (Option<TableElemType>)
    payload,   \* the ElemPayload returned by parse_tail
    table,     \* the local `table` of Elem::parse   (Option<Index>)
    etable,    \* ElemKind::Active.table       (Option<Index>, set with the kind)
    offset,    \* ElemKind::Active.offset      (Option<Expression>)
    ty,        \* the `ty` argument of parse_tail    (Option<TableElemType>)
    items,     \* the Vec being built by parse_tail (`exprs` / `elems`)
    item,      \* the value of the closure of one expression entry (Option<Option<Index>>)
    ret,       \* the caller parse_tail returns to
    attempts,  \* the probes a Lookahead1 has recorded as not matching
    err,       \* the Err returned                (Option)
    rewinds,   \* the parser core in use: does parens set the cursor back on Err
    actual,    \* binary_compare: the `actual` argument (bytes)
    expected,  \* binary_compare: the `expected` argument (bytes)
    nactual,   \* the local `actual` that shadows the argument  (Option)
    nexpected, \* the local `expected` that shadows the argument (Option)
    difference, \* the local `difference`: Option of the position found
    report,    \* the byte rows pushed on `msg`: <<position, byte>> pairs
    cpc,       \* the statement of binary_compare about to run
    result     \* what binary_compare did: "", "Ok", "Err" or "panic"

parserVars ==
    <<toks, pos, pc, span, name, exports, kind, import, tabty, elem,
      payload, table, etable, offset, ty, items, item, ret, attempts, err,
      rewinds>>
cmpVars ==
    <<actual, expected, nactual, nexpected, difference, report, cpc, result>>
vars == <<parserVars, cmpVars>>

----------------------------------------------------------------------------
(* Bounds of the input space *)

MaxEntries == 2
MaxExports == 1
MaxInstrs == 1

----------------------------------------------------------------------------
(* Tokens: <<kind, text>> *)

LPAREN == <<"LParen", "(">>
RPAREN == <<"RParen", ")">>
EOF == <<"EOF", "">>
KW(s) == <<"Keyword", s>>
ID(s) == <<"Id", s>>
INT(s) == <<"Integer", s>>
STR(s) == <<"String", s>>

Kind(t) == t[1]
Text(t) == t[2]

None == <<>>
Some(x) == <<x>>
IsSome(o) == Len(o) = 1
Unwrap(o) == o[1]

TokAt(ts, i) == IF i >= 1 /\ i <= Len(ts) THEN ts[i] ELSE EOF
Cur == TokAt(toks, pos)

(* ast::Index: Num(u32) | Id(Id) *)
IndexNum(n) == [tag |-> "Num", num |-> n, id |-> ""]
IndexId(s) == [tag |-> "Id", num |-> 0, id |-> s]

(* u32::parse: the value of an integer literal *)
U32Val(t) ==
    CASE t = "0" -> 0
      [] t = "1" -> 1
      [] t = "2" -> 2
      [] t = "3" -> 3
      [] t = "5" -> 5
      [] OTHER -> 0

(* ast::TableElemType::parse: the element type a keyword names *)
ElemTypeKws == {"funcref", "anyfunc", "anyref"}
ElemTypeVal(t) ==
    CASE t = "funcref" -> "Funcref"
      [] t = "anyfunc" -> "Funcref"
      [] t = "anyref" -> "Anyref"
      [] OTHER -> ""

(* Parser::peek::<T>() for the token classes the grammar probes *)
IsLParen(t) == Kind(t) = "LParen"
IsRParen(t) == Kind(t) = "RParen"
IsU32(t) == Kind(t) = "Integer"
IsId(t) == Kind(t) = "Id"
IsStr(t) == Kind(t) = "String"
IsKw(t, k) == t = KW(k)
IsElemType(t) == Kind(t) = "Keyword" /\ Text(t) \in ElemTypeKws
IsIndex(t) == IsId(t) \/ IsU32(t)

(* ast::Index::parse of one token *)
IndexVal(t) == IF IsId(t) THEN IndexId(Text(t)) ELSE IndexNum(U32Val(Text(t)))

(* Parser::is_empty: the cursor is at `)` or at the end of the input *)
IsEmptyAt(ts, i) == Kind(TokAt(ts, i)) \in {"RParen", "EOF"}
IsEmpty == IsEmptyAt(toks, pos)

(* Parser::peek2::<kw>(): the token after the next one is the keyword *)
Peek2Kw(k) == pos <= Len(toks) /\ IsKw(TokAt(toks, pos + 1), k)

(* Peek for InlineExport: `(` `export` <string> `)` *)
PeekExportAt(ts, i) ==
    /\ IsLParen(TokAt(ts, i))
    /\ IsKw(TokAt(ts, i + 1), "export")
    /\ IsStr(TokAt(ts, i + 2))
    /\ IsRParen(TokAt(ts, i + 3))

(* InlineExport::parse: every `(export "name")` group at the cursor *)
RECURSIVE ExportNames(_, _)
ExportNames(ts, i) ==
    IF PeekExportAt(ts, i)
      THEN <<Text(TokAt(ts, i + 2))>> \o ExportNames(ts, i + 4)
      ELSE <<>>

(* ast::TableType::parse: Limits (min, optional max) then the element type.
   The result is [ok, at, val]: at = the cursor afterwards, or where it failed. *)
ParseTableType(ts, i) ==
    IF ~IsU32(TokAt(ts, i))
      THEN [ok |-> FALSE, at |-> i, msg |-> "expected a u32", val |-> None]
      ELSE LET hasMax == IsU32(TokAt(ts, i + 1))
               j == IF hasMax THEN i + 2 ELSE i + 1
               mx == IF hasMax THEN Some(U32Val(Text(TokAt(ts, i + 1)))) ELSE None
           IN  IF IsElemType(TokAt(ts, j))
                 THEN [ok |-> TRUE, at |-> j + 1, msg |-> "",
                       val |-> Some([min |-> U32Val(Text(TokAt(ts, i))),
                                     max |-> mx,
                                     elem |-> ElemTypeVal(Text(TokAt(ts, j)))])]
                 ELSE [ok |-> FALSE, at |-> j, msg |-> "expected one of",
                       val |-> None]

(* ast::Expression::parse: instructions, plain or folded, up to the end of
   the enclosing group.  [ok, at, val] as above; val is the instruction list. *)
RECURSIVE ParseExpression(_, _, _)
ParseExpression(ts, i, acc) ==
    IF IsEmptyAt(ts, i)
      THEN [ok |-> TRUE, at |-> i, val |-> acc]
      ELSE IF IsKw(TokAt(ts, i), "i32.const")
        THEN IF IsU32(TokAt(ts, i + 1))
               THEN ParseExpression(ts, i + 2,
                      Append(acc, [op |-> "i32.const",
                                   arg |-> U32Val(Text(TokAt(ts, i + 1)))]))
               ELSE [ok |-> FALSE, at |-> i + 1, val |-> acc]
        ELSE IF IsLParen(TokAt(ts, i)) /\ IsKw(TokAt(ts, i + 1), "i32.const")
          THEN IF ~IsU32(TokAt(ts, i + 2))
                 THEN [ok |-> FALSE, at |-> i + 2, val |-> acc]
                 ELSE IF ~IsRParen(TokAt(ts, i + 3))
                   THEN [ok |-> FALSE, at |-> i + 3, val |-> acc]
                   ELSE ParseExpression(ts, i + 4,
                          Append(acc, [op |-> "i32.const",
                                       arg |-> U32Val(Text(TokAt(ts, i + 2)))]))
          ELSE [ok |-> FALSE,
                at |-> IF IsLParen(TokAt(ts, i)) THEN i + 1 ELSE i,
                val |-> acc]

----------------------------------------------------------------------------
(* Results *)

NoPayload == [tag |-> "None", ty |-> None, items |-> <<>>]
Indices(es) == [tag |-> "Indices", ty |-> None, items |-> es]
Exprs(t, es) == [tag |-> "Exprs", ty |-> Some(t), items |-> es]

Error(at, msg, exp) == Some([at |-> at, msg |-> msg, expected |-> exp])

(* The frame of the variables an action does not name *)
ast == <<span, name, exports, kind, import, tabty, elem, payload, table,
         etable, offset>>
tail == <<ty, items, item, ret>>

(* A parser call that consumed n tokens and continues at p *)
Consume(n, p) == pos' = pos + n /\ pc' = p /\ err' = err
(* A parser call that returned Err at the cursor *)
Fail(msg) == pos' = pos /\ pc' = "failed" /\ err' = Error(pos, msg, <<>>)
(* A parser call that returned Err at position at *)
FailAt(at, msg) == pos' = at /\ pc' = "failed" /\ err' = Error(at, msg, <<>>)

----------------------------------------------------------------------------
(* Table::parse *)

(* let span = parser.parse::<kw::table>()?.0; *)
TableKw ==
    /\ pc = "table_kw"
    /\ IF IsKw(Cur, "table")
         THEN span' = Some(pos) /\ Consume(1, "table_name")
         ELSE span' = span /\ Fail("expected keyword table")
    /\ UNCHANGED <<rewinds, cmpVars>>
    /\ UNCHANGED <<toks, name, exports, kind, import, tabty, elem, payload,
                   table, etable, offset, tail, attempts>>

(* let name = parser.parse()?;   (Option<Id>) *)
TableName ==
    /\ pc = "table_name"
    /\ IF IsId(Cur)
         THEN name' = Some(Text(Cur)) /\ Consume(1, "table_exports")
         ELSE name' = None /\ Consume(0, "table_exports")
    /\ UNCHANGED <<rewinds, cmpVars>>
    /\ UNCHANGED <<toks, span, exports, kind, import, tabty, elem, payload,
                   table, etable, offset, tail, attempts>>


(* let exports = parser.parse()?;   (InlineExport: every `(export "name")`
   group at the cursor).  At a group that starts `( export` and is not a
   whole export group the outcome is the leaf grammar's: a probe of the
   whole group leaves it to the lookahead, a probe of `( export` alone
   enters it and returns the Err of the missing string or parenthesis. *)
TableExports ==
    /\ pc = "table_exports"
    /\ LET q == pos + 4 * Len(ExportNames(toks, pos))
       IN  \/ /\ exports' = ExportNames(toks, pos)
              /\ Consume(q - pos, "table_look")
           \/ /\ IsLParen(TokAt(toks, q))
              /\ IsKw(TokAt(toks, q + 1), "export")
              /\ exports' = exports
              /\ IF IsStr(TokAt(toks, q + 2))
                   THEN FailAt(q + 3, "expected )")
                   ELSE FailAt(q + 2, "expected a string")
    /\ UNCHANGED <<rewinds, cmpVars>>
    /\ UNCHANGED <<toks, span, name, kind, import, tabty, elem, payload,
                   table, etable, offset, tail, attempts>>

(* TableLookahead that reports its error at the start of the construct *)
TableLookahead_ErrorAtSpan ==
    /\ pc = "table_look"
    /\ IF IsElemType(Cur)
         THEN attempts' = <<>> /\ Consume(0, "inline_ty")
         ELSE IF IsU32(Cur)
           THEN attempts' = <<"TableElemType">> /\ Consume(0, "normal_ty")
           ELSE IF IsLParen(Cur)
             THEN /\ attempts' = <<"TableElemType", "u32">>
                  /\ Consume(0, "import_open")
             ELSE /\ attempts' = <<"TableElemType", "u32", "LParen">>
                  /\ pos' = pos
                  /\ pc' = "failed"
                  /\ err' = Error(Unwrap(span), "expected one of", attempts')
    /\ UNCHANGED <<rewinds, cmpVars>>
    /\ UNCHANGED <<toks, ast, tail>>

(* TableLookahead with the number probe taken for the inline form *)
TableLookahead_NumberInline ==
    /\ pc = "table_look"
    /\ IF IsElemType(Cur) \/ IsU32(Cur)
         THEN attempts' = <<>> /\ Consume(0, "inline_ty")
         ELSE IF IsLParen(Cur)
           THEN /\ attempts' = <<"TableElemType", "u32">>
                /\ Consume(0, "import_open")
           ELSE /\ attempts' = <<"TableElemType", "u32", "LParen">>
                /\ pos' = pos
                /\ pc' = "failed"
                /\ err' = Error(pos, "expected one of", attempts')
    /\ UNCHANGED <<rewinds, cmpVars>>
    /\ UNCHANGED <<toks, ast, tail>>

(* let mut l = parser.lookahead1();
   if l.peek::<ast::TableElemType>() .. else if l.peek::<u32>() ..
   else if l.peek::<ast::LParen>() .. else { return Err(l.error()) } *)
TableLookahead ==
    /\ pc = "table_look"
    /\ IF IsElemType(Cur)
         THEN attempts' = <<>> /\ Consume(0, "inline_ty")
         ELSE IF IsU32(Cur)
           THEN attempts' = <<"TableElemType">> /\ Consume(0, "normal_ty")
           ELSE IF IsLParen(Cur)
             THEN /\ attempts' = <<"TableElemType", "u32">>
                  /\ Consume(0, "import_open")
             ELSE /\ attempts' = <<"TableElemType", "u32", "LParen">>
                  /\ pos' = pos
                  /\ pc' = "failed"
                  /\ err' = Error(pos, "expected one of", attempts')
    /\ UNCHANGED <<rewinds, cmpVars>>
    /\ UNCHANGED <<toks, ast, tail>>

(* let elem = parser.parse()?;   (TableElemType) *)
InlineElemType ==
    /\ pc = "inline_ty"
    /\ IF IsElemType(Cur)
         THEN elem' = Some(ElemTypeVal(Text(Cur))) /\ Consume(1, "inline_open")
         ELSE elem' = elem /\ Fail("expected one of")
    /\ UNCHANGED <<rewinds, cmpVars>>
    /\ UNCHANGED <<toks, span, name, exports, kind, import, tabty, payload,
                   table, etable, offset, tail, attempts>>

(* parser.parens(|p| ..): the opening parenthesis *)
InlineOpen ==
    /\ pc = "inline_open"
    /\ IF IsLParen(Cur) THEN Consume(1, "inline_elem") ELSE Fail("expected (")
    /\ UNCHANGED <<rewinds, cmpVars>>
    /\ UNCHANGED <<toks, ast, tail, attempts>>

(* p.parse::<kw::elem>()?; *)
InlineElemKw ==
    /\ pc = "inline_elem"
    /\ IF IsKw(Cur, "elem")
         THEN Consume(1, "inline_peek")
         ELSE Fail("expected keyword elem")
    /\ UNCHANGED <<rewinds, cmpVars>>
    /\ UNCHANGED <<toks, ast, tail, attempts>>

(* InlinePeekTy with the type of the expression list fixed to funcref *)
InlinePeekTy_Funcref ==
    /\ pc = "inline_peek"
    /\ ty' = IF IsLParen(Cur) THEN Some("Funcref") ELSE None
    /\ ret' = "inline_close"
    /\ Consume(0, "tail")
    /\ UNCHANGED <<rewinds, cmpVars>>
    /\ UNCHANGED <<toks, ast, items, item, attempts>>

(* let ty = if parser.peek::<ast::LParen>() { Some(elem) } else { None };
   ElemPayload::parse_tail(parser, ty) *)
InlinePeekTy ==
    /\ pc = "inline_peek"
    /\ ty' = IF IsLParen(Cur) THEN elem ELSE None
    /\ ret' = "inline_close"
    /\ Consume(0, "tail")
    /\ UNCHANGED <<rewinds, cmpVars>>
    /\ UNCHANGED <<toks, ast, items, item, attempts>>

(* .. })?; TableKind::Inline { elem, payload }: the closing parenthesis *)
InlineClose ==
    /\ pc = "inline_close"
    /\ IF IsRParen(Cur)
         THEN kind' = "Inline" /\ Consume(1, "table_ok")
         ELSE kind' = kind /\ Fail("expected )")
    /\ UNCHANGED <<rewinds, cmpVars>>
    /\ UNCHANGED <<toks, span, name, exports, import, tabty, elem, payload,
                   table, etable, offset, tail, attempts>>

(* TableKind::Normal(parser.parse()?) *)
NormalType ==
    /\ pc = "normal_ty"
    /\ LET r == ParseTableType(toks, pos)
       IN  IF r.ok
             THEN /\ tabty' = r.val
                  /\ kind' = "Normal"
                  /\ Consume(r.at - pos, "table_ok")
             ELSE /\ UNCHANGED <<tabty, kind>>
                  /\ FailAt(r.at, r.msg)
    /\ UNCHANGED <<rewinds, cmpVars>>
    /\ UNCHANGED <<toks, span, name, exports, import, elem, payload,
                   table, etable, offset, tail, attempts>>

(* parser.parens(|p| ..): the opening parenthesis of the import group *)
ImportOpen ==
    /\ pc = "import_open"
    /\ IF IsLParen(Cur) THEN Consume(1, "import_kw") ELSE Fail("expected (")
    /\ UNCHANGED <<rewinds, cmpVars>>
    /\ UNCHANGED <<toks, ast, tail, attempts>>

(* p.parse::<kw::import>()?; *)
ImportKw ==
    /\ pc = "import_kw"
    /\ IF IsKw(Cur, "import")
         THEN Consume(1, "import_names")
         ELSE Fail("expected keyword import")
    /\ UNCHANGED <<rewinds, cmpVars>>
    /\ UNCHANGED <<toks, ast, tail, attempts>>

(* Ok((p.parse()?, p.parse()?))   (two &str) *)
ImportNames ==
    /\ pc = "import_names"
    /\ IF ~IsStr(Cur)
         THEN import' = import /\ Fail("expected a string")
         ELSE IF ~IsStr(TokAt(toks, pos + 1))
           THEN import' = import /\ FailAt(pos + 1, "expected a string")
           ELSE /\ import' = Some(<<Text(Cur), Text(TokAt(toks, pos + 1))>>)
                /\ Consume(2, "import_close")
    /\ UNCHANGED <<rewinds, cmpVars>>
    /\ UNCHANGED <<toks, span, name, exports, kind, tabty, elem, payload,
                   table, etable, offset, tail, attempts>>

(* .. })?;   the closing parenthesis of the import group *)
ImportClose ==
    /\ pc = "import_close"
    /\ IF IsRParen(Cur) THEN Consume(1, "import_ty") ELSE Fail("expected )")
    /\ UNCHANGED <<rewinds, cmpVars>>
    /\ UNCHANGED <<toks, ast, tail, attempts>>

(* TableKind::Import { module, name, ty: parser.parse()? } *)
ImportType ==
    /\ pc = "import_ty"
    /\ LET r == ParseTableType(toks, pos)
       IN  IF r.ok
             THEN /\ tabty' = r.val
                  /\ kind' = "Import"
                  /\ Consume(r.at - pos, "table_ok")
             ELSE /\ UNCHANGED <<tabty, kind>>
                  /\ FailAt(r.at, r.msg)
    /\ UNCHANGED <<rewinds, cmpVars>>
    /\ UNCHANGED <<toks, span, name, exports, import, elem, payload,
                   table, etable, offset, tail, attempts>>

(* Ok(Table { span, name, exports, kind }) *)
TableOk ==
    /\ pc = "table_ok"
    /\ Consume(0, "field_close")
    /\ UNCHANGED <<rewinds, cmpVars>>
    /\ UNCHANGED <<toks, ast, tail, attempts>>

----------------------------------------------------------------------------
(* ElemPayload::parse_tail *)

(* if let Some(ty) = ty { let mut exprs = Vec::new(); .. }
   else { .. let mut elems = Vec::new(); .. } *)
TailDispatch ==
    /\ pc = "tail"
    /\ items' = <<>>
    /\ item' = None
    /\ Consume(0, IF IsSome(ty) THEN "exprs_loop" ELSE "indices_func")
    /\ UNCHANGED <<rewinds, cmpVars>>
    /\ UNCHANGED <<toks, ast, ty, ret, attempts>>

(* while !parser.is_empty() { .. }  Ok(ElemPayload::Exprs { exprs, ty }) *)
ExprsLoop ==
    /\ pc = "exprs_loop"
    /\ IF IsEmpty
         THEN payload' = Exprs(Unwrap(ty), items) /\ Consume(0, ret)
         ELSE payload' = payload /\ Consume(0, "expr_open")
    /\ UNCHANGED <<rewinds, cmpVars>>
    /\ UNCHANGED <<toks, span, name, exports, kind, import, tabty, elem,
                   table, etable, offset, tail, attempts>>

(* exprs.push(parser.parens(|p| ..)): the opening parenthesis *)
ExprOpen ==
    /\ pc = "expr_open"
    /\ IF IsLParen(Cur) THEN Consume(1, "expr_look") ELSE Fail("expected (")
    /\ UNCHANGED <<rewinds, cmpVars>>
    /\ UNCHANGED <<toks, ast, tail, attempts>>

(* let mut l = p.lookahead1();
   if l.peek::<kw::ref_null>() .. else if l.peek::<kw::ref_func>() ..
   else { Err(l.error()) } *)
ExprLookahead ==
    /\ pc = "expr_look"
    /\ IF IsKw(Cur, "ref.null")
         THEN attempts' = <<>> /\ Consume(0, "expr_null")
         ELSE IF IsKw(Cur, "ref.func")
           THEN attempts' = <<"ref.null">> /\ Consume(0, "expr_func")
           ELSE /\ attempts' = <<"ref.null", "ref.func">>
                /\ pos' = pos
                /\ pc' = "failed"
                /\ err' = Error(pos, "expected one of", attempts')
    /\ UNCHANGED <<rewinds, cmpVars>>
    /\ UNCHANGED <<toks, ast, tail>>

(* ExprRefNull that also reads an element type after the keyword *)
ExprRefNull_WithType ==
    /\ pc = "expr_null"
    /\ IF IsKw(Cur, "ref.null")
         THEN IF IsElemType(TokAt(toks, pos + 1))
                THEN item' = Some(None) /\ Consume(2, "expr_close")
                ELSE item' = item /\ FailAt(pos + 1, "expected one of")
         ELSE item' = item /\ Fail("expected keyword ref.null")
    /\ UNCHANGED <<rewinds, cmpVars>>
    /\ UNCHANGED <<toks, ast, ty, items, ret, attempts>>

(* p.parse::<kw::ref_null>()?; Ok(None) *)
ExprRefNull ==
    /\ pc = "expr_null"
    /\ IF IsKw(Cur, "ref.null")
         THEN item' = Some(None) /\ Consume(1, "expr_close")
         ELSE item' = item /\ Fail("expected keyword ref.null")
    /\ UNCHANGED <<rewinds, cmpVars>>
    /\ UNCHANGED <<toks, ast, ty, items, ret, attempts>>

(* p.parse::<kw::ref_func>()?; *)
ExprRefFunc ==
    /\ pc = "expr_func"
    /\ IF IsKw(Cur, "ref.func")
         THEN Consume(1, "expr_index")
         ELSE Fail("expected keyword ref.func")
    /\ UNCHANGED <<rewinds, cmpVars>>
    /\ UNCHANGED <<toks, ast, tail, attempts>>

(* Ok(Some(p.parse()?))   (Index) *)
ExprIndex ==
    /\ pc = "expr_index"
    /\ IF IsIndex(Cur)
         THEN item' = Some(Some(IndexVal(Cur))) /\ Consume(1, "expr_close")
         ELSE item' = item /\ Fail("expected an index")
    /\ UNCHANGED <<rewinds, cmpVars>>
    /\ UNCHANGED <<toks, ast, ty, items, ret, attempts>>

(* .. })?): the closing parenthesis of the entry, then the push *)
ExprClose ==
    /\ pc = "expr_close"
    /\ IF IsRParen(Cur)
         THEN /\ items' = Append(items, Unwrap(item))
              /\ item' = None
              /\ Consume(1, "exprs_loop")
         ELSE /\ UNCHANGED <<items, item>>
              /\ Fail("expected )")
    /\ UNCHANGED <<rewinds, cmpVars>>
    /\ UNCHANGED <<toks, ast, ty, ret, attempts>>

(* parser.parse::<Option<kw::func>>()?; *)
IndicesFunc ==
    /\ pc = "indices_func"
    /\ Consume(IF IsKw(Cur, "func") THEN 1 ELSE 0, "indices_loop")
    /\ UNCHANGED <<rewinds, cmpVars>>
    /\ UNCHANGED <<toks, ast, tail, attempts>>

(* while !parser.is_empty() { .. }  Ok(ElemPayload::Indices(elems)) *)
IndicesLoop ==
    /\ pc = "indices_loop"
    /\ IF IsEmpty
         THEN payload' = Indices(items) /\ Consume(0, ret)
         ELSE payload' = payload /\ Consume(0, "indices_item")
    /\ UNCHANGED <<rewinds, cmpVars>>
    /\ UNCHANGED <<toks, span, name, exports, kind, import, tabty, elem,
                   table, etable, offset, tail, attempts>>

(* IndicesItem that keeps only the first occurrence of an index *)
IndicesItem_Dedup ==
    /\ pc = "indices_item"
    /\ IF IsIndex(Cur)
         THEN /\ items' = IF \E i \in 1..Len(items) : items[i] = IndexVal(Cur)
                            THEN items
                            ELSE Append(items, IndexVal(Cur))
              /\ Consume(1, "indices_loop")
         ELSE items' = items /\ Fail("expected an index")
    /\ UNCHANGED <<rewinds, cmpVars>>
    /\ UNCHANGED <<toks, ast, ty, item, ret, attempts>>

(* elems.push(parser.parse()?);   (Index) *)
IndicesItem ==
    /\ pc = "indices_item"
    /\ IF IsIndex(Cur)
         THEN items' = Append(items, IndexVal(Cur)) /\ Consume(1, "indices_loop")
         ELSE items' = items /\ Fail("expected an index")
    /\ UNCHANGED <<rewinds, cmpVars>>
    /\ UNCHANGED <<toks, ast, ty, item, ret, attempts>>

----------------------------------------------------------------------------
(* Elem::parse and ElemPayload::parse *)

(* let span = parser.parse::<kw::elem>()?.0; *)
ElemKw ==
    /\ pc = "elem_kw"
    /\ IF IsKw(Cur, "elem")
         THEN span' = Some(pos) /\ Consume(1, "elem_name")
         ELSE span' = span /\ Fail("expected keyword elem")
    /\ UNCHANGED <<rewinds, cmpVars>>
    /\ UNCHANGED <<toks, name, exports, kind, import, tabty, elem, payload,
                   table, etable, offset, tail, attempts>>


(* ElemName leaving an identifier after `elem` to the rest of the clause *)
ElemName_IdLeftForTarget ==
    /\ pc = "elem_name"
    /\ name' = None /\ Consume(0, "elem_kind")
    /\ UNCHANGED <<rewinds, cmpVars>>
    /\ UNCHANGED <<toks, span, exports, kind, import, tabty, elem, payload,
                   table, etable, offset, tail, attempts>>

(* let name = parser.parse()?;   (Option<Id>) *)
ElemName ==
    /\ pc = "elem_name"
    /\ IF IsId(Cur)
         THEN name' = Some(Text(Cur)) /\ Consume(1, "elem_kind")
         ELSE name' = None /\ Consume(0, "elem_kind")
    /\ UNCHANGED <<rewinds, cmpVars>>
    /\ UNCHANGED <<toks, span, exports, kind, import, tabty, elem, payload,
                   table, etable, offset, tail, attempts>>

(* ElemKindPeek with the number probe left out *)
ElemKindPeek_ParenOnly ==
    /\ pc = "elem_kind"
    /\ IF IsLParen(Cur)
         THEN kind' = kind /\ Consume(0, "elem_table")
         ELSE kind' = "Passive" /\ Consume(0, "payload")
    /\ UNCHANGED <<rewinds, cmpVars>>
    /\ UNCHANGED <<toks, span, name, exports, import, tabty, elem, payload,
                   table, etable, offset, tail, attempts>>

(* if parser.peek::<u32>() || parser.peek::<ast::LParen>() { .. }
   else { ElemKind::Passive } *)
ElemKindPeek ==
    /\ pc = "elem_kind"
    /\ IF IsU32(Cur) \/ IsLParen(Cur)
         THEN kind' = kind /\ Consume(0, "elem_table")
         ELSE kind' = "Passive" /\ Consume(0, "payload")
    /\ UNCHANGED <<rewinds, cmpVars>>
    /\ UNCHANGED <<toks, span, name, exports, import, tabty, elem, payload,
                   table, etable, offset, tail, attempts>>


(* ElemTablePeek entering a group to see whether `table` follows, instead
   of peek2 *)
ElemTablePeek_EnterGroup ==
    /\ pc = "elem_table"
    /\ IF IsLParen(Cur)
         THEN table' = table /\ Consume(1, "etable_kw")
         ELSE IF IsU32(Cur)
           THEN table' = table /\ Consume(0, "etable_num")
           ELSE table' = None /\ Consume(0, "offset_open")
    /\ UNCHANGED <<rewinds, cmpVars>>
    /\ UNCHANGED <<toks, span, name, exports, kind, import, tabty, elem,
                   payload, etable, offset, tail, attempts>>

(* let table = if parser.peek2::<kw::table>() { .. }
   else if parser.peek::<u32>() { .. } else { None }; *)
ElemTablePeek ==
    /\ pc = "elem_table"
    /\ IF Peek2Kw("table")
         THEN table' = table /\ Consume(0, "etable_open")
         ELSE IF IsU32(Cur)
           THEN table' = table /\ Consume(0, "etable_num")
           ELSE table' = None /\ Consume(0, "offset_open")
    /\ UNCHANGED <<rewinds, cmpVars>>
    /\ UNCHANGED <<toks, span, name, exports, kind, import, tabty, elem,
                   payload, etable, offset, tail, attempts>>

(* Some(parser.parens(|p| ..)): the opening parenthesis *)
ElemTableOpen ==
    /\ pc = "etable_open"
    /\ IF IsLParen(Cur) THEN Consume(1, "etable_kw") ELSE Fail("expected (")
    /\ UNCHANGED <<rewinds, cmpVars>>
    /\ UNCHANGED <<toks, ast, tail, attempts>>

(* p.parse::<kw::table>()?; *)
ElemTableKw ==
    /\ pc = "etable_kw"
    /\ IF IsKw(Cur, "table")
         THEN Consume(1, "etable_index")
         ELSE Fail("expected keyword table")
    /\ UNCHANGED <<rewinds, cmpVars>>
    /\ UNCHANGED <<toks, ast, tail, attempts>>

(* p.parse()   (Index) *)
ElemTableIndex ==
    /\ pc = "etable_index"
    /\ IF IsIndex(Cur)
         THEN table' = Some(IndexVal(Cur)) /\ Consume(1, "etable_close")
         ELSE table' = table /\ Fail("expected an index")
    /\ UNCHANGED <<rewinds, cmpVars>>
    /\ UNCHANGED <<toks, span, name, exports, kind, import, tabty, elem,
                   payload, etable, offset, tail, attempts>>

(* .. })?): the closing parenthesis of the table group *)
ElemTableClose ==
    /\ pc = "etable_close"
    /\ IF IsRParen(Cur) THEN Consume(1, "offset_open") ELSE Fail("expected )")
    /\ UNCHANGED <<rewinds, cmpVars>>
    /\ UNCHANGED <<toks, ast, tail, attempts>>

(* Some(ast::Index::Num(parser.parse()?)) *)
ElemTableNum ==
    /\ pc = "etable_num"
    /\ IF IsU32(Cur)
         THEN /\ table' = Some(IndexNum(U32Val(Text(Cur))))
              /\ Consume(1, "offset_open")
         ELSE table' = table /\ Fail("expected a u32")
    /\ UNCHANGED <<rewinds, cmpVars>>
    /\ UNCHANGED <<toks, span, name, exports, kind, import, tabty, elem,
                   payload, etable, offset, tail, attempts>>

(* let offset = parser.parens(|parser| ..): the opening parenthesis *)
OffsetOpen ==
    /\ pc = "offset_open"
    /\ IF IsLParen(Cur) THEN Consume(1, "offset_kw") ELSE Fail("expected (")
    /\ UNCHANGED <<rewinds, cmpVars>>
    /\ UNCHANGED <<toks, ast, tail, attempts>>

(* OffsetKw that insists on the keyword *)
OffsetKw_Required ==
    /\ pc = "offset_kw"
    /\ IF IsKw(Cur, "offset")
         THEN Consume(1, "offset_expr")
         ELSE Fail("expected keyword offset")
    /\ UNCHANGED <<rewinds, cmpVars>>
    /\ UNCHANGED <<toks, ast, tail, attempts>>

(* if parser.peek::<kw::offset>() { parser.parse::<kw::offset>()?; } *)
OffsetKw ==
    /\ pc = "offset_kw"
    /\ Consume(IF IsKw(Cur, "offset") THEN 1 ELSE 0, "offset_expr")
    /\ UNCHANGED <<rewinds, cmpVars>>
    /\ UNCHANGED <<toks, ast, tail, attempts>>

(* parser.parse()   (Expression) *)
OffsetExpr ==
    /\ pc = "offset_expr"
    /\ LET r == ParseExpression(toks, pos, <<>>)
       IN  IF r.ok
             THEN offset' = Some(r.val) /\ Consume(r.at - pos, "offset_close")
             ELSE offset' = offset /\ FailAt(r.at, "expected an instruction")
    /\ UNCHANGED <<rewinds, cmpVars>>
    /\ UNCHANGED <<toks, span, name, exports, kind, import, tabty, elem,
                   payload, table, etable, tail, attempts>>

(* OffsetClose with the default target off by one *)
OffsetClose_DefaultOne ==
    /\ pc = "offset_close"
    /\ IF IsRParen(Cur)
         THEN /\ kind' = "Active"
              /\ etable' = Some(IF IsSome(table) THEN Unwrap(table)
                                                 ELSE IndexNum(1))
              /\ Consume(1, "payload")
         ELSE /\ UNCHANGED <<kind, etable>>
              /\ Fail("expected )")
    /\ UNCHANGED <<rewinds, cmpVars>>
    /\ UNCHANGED <<toks, span, name, exports, import, tabty, elem, payload,
                   table, offset, tail, attempts>>

(* .. })?; ElemKind::Active { table: table.unwrap_or(ast::Index::Num(0)),
   offset } *)
OffsetClose ==
    /\ pc = "offset_close"
    /\ IF IsRParen(Cur)
         THEN /\ kind' = "Active"
              /\ etable' = Some(IF IsSome(table) THEN Unwrap(table)
                                                 ELSE IndexNum(0))
              /\ Consume(1, "payload")
         ELSE /\ UNCHANGED <<kind, etable>>
              /\ Fail("expected )")
    /\ UNCHANGED <<rewinds, cmpVars>>
    /\ UNCHANGED <<toks, span, name, exports, import, tabty, elem, payload,
                   table, offset, tail, attempts>>

(* PayloadParse that never looks for an element type *)
PayloadParse_NoType ==
    /\ pc = "payload"
    /\ ty' = None
    /\ Consume(0, "tail")
    /\ ret' = "elem_ok"
    /\ UNCHANGED <<rewinds, cmpVars>>
    /\ UNCHANGED <<toks, ast, items, item, attempts>>

(* let payload = parser.parse()?;
   ElemPayload::parse: ElemPayload::parse_tail(parser, parser.parse()?)
   (the argument is an Option<TableElemType>) *)
PayloadParse ==
    /\ pc = "payload"
    /\ IF IsElemType(Cur)
         THEN ty' = Some(ElemTypeVal(Text(Cur))) /\ Consume(1, "tail")
         ELSE ty' = None /\ Consume(0, "tail")
    /\ ret' = "elem_ok"
    /\ UNCHANGED <<rewinds, cmpVars>>
    /\ UNCHANGED <<toks, ast, items, item, attempts>>

(* Ok(Elem { span, name, kind, payload }) *)
ElemOk ==
    /\ pc = "elem_ok"
    /\ Consume(0, "field_close")
    /\ UNCHANGED <<rewinds, cmpVars>>
    /\ UNCHANGED <<toks, ast, tail, attempts>>

----------------------------------------------------------------------------
(* The enclosing module field: Table::parse and Elem::parse run inside the
   parenthesized group of one field; after they return, the group must close. *)
FieldClose ==
    /\ pc = "field_close"
    /\ IF IsRParen(Cur) THEN Consume(1, "accepted") ELSE Fail("expected )")
    /\ UNCHANGED <<rewinds, cmpVars>>
    /\ UNCHANGED <<toks, ast, tail, attempts>>

(* The position of the innermost `(` that is open before position p, d
   groups having been closed on the way back *)
RECURSIVE OpenBefore(_, _, _)
OpenBefore(ts, p, d) ==
    IF p <= 1 THEN 1
    ELSE IF IsRParen(TokAt(ts, p - 1)) THEN OpenBefore(ts, p - 1, d + 1)
    ELSE IF IsLParen(TokAt(ts, p - 1))
      THEN IF d = 0 THEN p - 1 ELSE OpenBefore(ts, p - 1, d - 1)
    ELSE OpenBefore(ts, p - 1, d)

(* The opening of the outermost group inside the field that holds position
   p, or p when only the field's own group holds it *)
RECURSIVE OutermostOpen(_, _)
OutermostOpen(ts, p) ==
    LET g == OpenBefore(ts, p, 0)
    IN  IF g <= 1 THEN p ELSE OutermostOpen(ts, g)

(* The position of the field's opening parenthesis *)
FieldOpen == 1

(* The Err leaves Table::parse / Elem::parse through `?` and through every
   parens call that was entered on the way to the failing call.  table.rs
   has no code on that path.  A core whose parens sets the cursor back on
   Err leaves it at the opening of the outermost of these groups; a core
   whose parens does not leaves it where the error stands. *)
ParensErr ==
    /\ pc = "failed"
    /\ pos' = IF rewinds THEN OutermostOpen(toks, pos) ELSE pos
    /\ pc' = "returned"
    /\ UNCHANGED <<rewinds, cmpVars>>
    /\ UNCHANGED <<toks, ast, tail, attempts, err>>

(* The parens call of the module field, around Table::parse / Elem::parse,
   returns the Err *)
FieldErr ==
    /\ pc = "returned"
    /\ pos' = IF rewinds THEN FieldOpen ELSE pos
    /\ pc' = "rejected"
    /\ UNCHANGED <<rewinds, cmpVars>>
    /\ UNCHANGED <<toks, ast, tail, attempts, err>>

----------------------------------------------------------------------------
(* The inputs: token streams of one `(table ..)` or `(elem ..)` field, well
   formed and malformed, built from the pieces of the grammar *)

RECURSIVE Cat(_)
Cat(ss) == IF Len(ss) = 0 THEN <<>> ELSE Head(ss) \o Cat(Tail(ss))

SeqsUpTo(S, n) == UNION {[1..k -> S] : k \in 0..n}

Names == {<<>>, <<ID("$t")>>}

ExportGroup == <<LPAREN, KW("export"), STR("e"), RPAREN>>
ExportSeqs ==
    {Cat([i \in 1..k |-> ExportGroup]) : k \in 0..MaxExports}
      \cup {<<LPAREN, KW("export"), RPAREN>>}

Entries ==
    { <<ID("$f")>>, <<ID("$g")>>, <<INT("1")>>,
      <<LPAREN, KW("ref.func"), ID("$f"), RPAREN>>,
      <<LPAREN, KW("ref.func"), INT("2"), RPAREN>>,
      <<LPAREN, KW("ref.null"), RPAREN>>,
      <<LPAREN, KW("ref.null"), KW("funcref"), RPAREN>>,
      <<LPAREN, KW("i32.const"), INT("0"), RPAREN>> }

Payloads == {Cat(s) : s \in SeqsUpTo(Entries, MaxEntries)}
CorePayloads == {<<>>, <<ID("$f")>>, <<ID("$f"), ID("$g")>>}
PayloadPrefixes == {<<>>, <<KW("func")>>, <<KW("funcref")>>, <<KW("anyref")>>}

TableTypes ==
    { <<INT("1"), INT("2"), KW("funcref")>>, <<INT("1"), KW("anyref")>>,
      <<INT("0"), KW("anyfunc")>>, <<INT("1"), INT("2")>>, <<INT("1")>>,
      <<INT("1"), INT("2"), INT("3"), KW("funcref")>>,
      <<INT("1"), KW("funcref"), KW("funcref")>>, <<>> }

ImportGroups ==
    { <<LPAREN, KW("import"), STR("m"), STR("n"), RPAREN>>,
      <<LPAREN, KW("import"), STR("m"), RPAREN>>,
      <<LPAREN, KW("import"), STR("m"), STR("n")>>,
      <<LPAREN, KW("elem"), ID("$f"), RPAREN>>,
      <<LPAREN, RPAREN>> }

InlineBodies ==
    {<<KW(e), LPAREN, KW("elem")>> \o p \o <<RPAREN>> :
        e \in ElemTypeKws, p \in Payloads}
      \cup {<<KW(e), LPAREN, KW("elem"), KW("func")>> \o p \o <<RPAREN>> :
              e \in ElemTypeKws, p \in CorePayloads}
      \cup {<<KW(e)>> \o x : e \in ElemTypeKws,
              x \in {<<>>, <<KW("elem"), ID("$f")>>,
                     <<LPAREN, KW("table"), RPAREN>>,
                     <<LPAREN, KW("elem"), ID("$f")>>,
                     <<INT("1")>>}}

TableBodies ==
    InlineBodies
      \cup (TableTypes \ {<<>>})
      \cup {g \o t : g \in ImportGroups, t \in TableTypes}
      \cup {<<>>, <<KW("func")>>, <<STR("m")>>, <<KW("table")>>}

TableInputs ==
    {<<LPAREN, KW("table")>> \o n \o x \o b \o <<RPAREN>> :
        n \in Names, x \in ExportSeqs, b \in TableBodies}

InstrChunks ==
    { <<KW("i32.const"), INT("0")>>,
      <<LPAREN, KW("i32.const"), INT("0"), RPAREN>>,
      <<LPAREN, KW("i32.const"), INT("5"), RPAREN>>,
      <<KW("i32.const")>>, <<ID("$f")>> }
ExprBodies == {Cat(s) : s \in SeqsUpTo(InstrChunks, MaxInstrs)}

Offsets ==
    {<<LPAREN>> \o k \o e \o <<RPAREN>> :
        k \in {<<>>, <<KW("offset")>>}, e \in ExprBodies}
      \cup {<<>>, <<LPAREN, KW("offset"), KW("i32.const"), INT("0")>>}
CoreOffsets ==
    { <<>>,
      <<LPAREN, KW("offset"), LPAREN, KW("i32.const"), INT("5"), RPAREN, RPAREN>>,
      <<LPAREN, KW("i32.const"), INT("0"), RPAREN>> }

Targets ==
    { <<>>, <<INT("0")>>, <<INT("1")>>,
      <<LPAREN, KW("table"), INT("0"), RPAREN>>,
      <<LPAREN, KW("table"), INT("1"), RPAREN>>,
      <<LPAREN, KW("table"), ID("$t"), RPAREN>>,
      <<LPAREN, KW("table"), RPAREN>>,
      <<LPAREN, KW("table"), INT("0"), INT("1"), RPAREN>>,
      <<INT("1"), KW("table")>> }
CoreTargets == {<<>>, <<LPAREN, KW("table"), INT("0"), RPAREN>>}

Heads ==
    {t \o o : t \in Targets, o \in CoreOffsets}
      \cup {t \o o : t \in CoreTargets, o \in Offsets}
CoreHeads == {t \o o : t \in CoreTargets, o \in CoreOffsets \ {<<>>}} \cup {<<>>}

ElemBodies ==
    {h \o x \o p : h \in CoreHeads, x \in PayloadPrefixes, p \in Payloads}
      \cup {h \o x \o p : h \in Heads, x \in {<<>>, <<KW("func")>>},
              p \in CorePayloads}

ElemInputs ==
    {<<LPAREN, KW("elem")>> \o n \o b \o <<RPAREN>> :
        n \in Names, b \in ElemBodies}

Inputs == TableInputs \cup ElemInputs

----------------------------------------------------------------------------
(* The parser stands inside the field's group, at its keyword *)
(* binary_compare is not running *)
CmpIdle ==
    /\ actual = <<>>
    /\ expected = <<>>
    /\ nactual = None
    /\ nexpected = None
    /\ difference = None
    /\ report = <<>>
    /\ cpc = "idle"
    /\ result = ""

Init ==
    /\ toks \in Inputs
    /\ pos = 2
    /\ pc = IF IsKw(toks[2], "table") THEN "table_kw" ELSE "elem_kw"
    /\ span = None
    /\ name = None
    /\ exports = <<>>
    /\ kind = ""
    /\ import = None
    /\ tabty = None
    /\ elem = None
    /\ payload = NoPayload
    /\ table = None
    /\ etable = None
    /\ offset = None
    /\ ty = None
    /\ items = <<>>
    /\ item = None
    /\ ret = ""
    /\ attempts = <<>>
    /\ err = None
    /\ rewinds \in BOOLEAN
    /\ CmpIdle

Next ==
    \/ TableKw \/ TableName \/ TableExports \/ TableLookahead
    \/ InlineElemType \/ InlineOpen \/ InlineElemKw \/ InlinePeekTy
    \/ InlineClose \/ NormalType
    \/ ImportOpen \/ ImportKw \/ ImportNames \/ ImportClose \/ ImportType
    \/ TableOk
    \/ TailDispatch \/ ExprsLoop \/ ExprOpen \/ ExprLookahead \/ ExprRefNull
    \/ ExprRefFunc \/ ExprIndex \/ ExprClose
    \/ IndicesFunc \/ IndicesLoop \/ IndicesItem
    \/ ElemKw \/ ElemName \/ ElemKindPeek \/ ElemTablePeek
    \/ ElemTableOpen \/ ElemTableKw \/ ElemTableIndex \/ ElemTableClose
    \/ ElemTableNum
    \/ OffsetOpen \/ OffsetKw \/ OffsetExpr \/ OffsetClose
    \/ PayloadParse \/ ElemOk
    \/ FieldClose \/ ParensErr \/ FieldErr

Spec == Init /\ [][Next]_vars

----------------------------------------------------------------------------
(* Vocabulary of the properties: positions and values read off the source
   text, independently of the run of the parser *)

IsTable == IsKw(toks[2], "table")
IsElem == IsKw(toks[2], "elem")
Final == pc \in {"accepted", "failed"}

(* The position after `table`, the optional name and the export annotations *)
BranchPos(ts) ==
    LET p == IF IsId(TokAt(ts, 3)) THEN 4 ELSE 3
    IN  p + 4 * Len(ExportNames(ts, p))

(* The position after `elem` and the optional name *)
ElemBranchPos(ts) == IF IsId(TokAt(ts, 3)) THEN 4 ELSE 3

ExNormal == <<LPAREN, KW("table"), INT("1"), INT("2"), KW("funcref"), RPAREN>>
ExInline ==
    <<LPAREN, KW("table"), KW("funcref"), LPAREN, KW("elem"), ID("$f"),
      RPAREN, RPAREN>>
ExImport ==
    <<LPAREN, KW("table"), LPAREN, KW("import"), STR("m"), STR("n"), RPAREN,
      INT("1"), INT("2"), KW("funcref"), RPAREN>>

----------------------------------------------------------------------------
(* C1: Table::parse chooses the kind from the class of the token after
   `table`, the name and the exports alone: an element-type token gives
   Inline, a number gives Normal, an opening parenthesis gives Import; every
   accepted table has exactly one of the three kinds; `(table 1 2 funcref)`
   is accepted as Normal, `(table funcref (elem $f))` as Inline with the
   one-element index payload [$f], `(table (import "m" "n") 1 2 funcref)`
   as Import. *)
C1_KindByTokenClass ==
    IsTable =>
      LET t == TokAt(toks, BranchPos(toks))
      IN  /\ kind \in {"", "Inline", "Normal", "Import"}
          /\ kind = "Inline" => IsElemType(t)
          /\ kind = "Normal" => IsU32(t)
          /\ kind = "Import" => IsLParen(t)
          /\ pc = "accepted" =>
               /\ kind # ""
               /\ kind = "Inline" <=> IsElemType(t)
               /\ kind = "Normal" <=> IsU32(t)
               /\ kind = "Import" <=> IsLParen(t)
          /\ (Final /\ toks = ExNormal) =>
               /\ pc = "accepted"
               /\ kind = "Normal"
               /\ tabty = Some([min |-> 1, max |-> Some(2), elem |-> "Funcref"])
          /\ (Final /\ toks = ExInline) =>
               /\ pc = "accepted"
               /\ kind = "Inline"
               /\ payload = Indices(<<IndexId("$f")>>)
          /\ (Final /\ toks = ExImport) =>
               /\ pc = "accepted"
               /\ kind = "Import"
               /\ import = Some(<<"m", "n">>)

C1_Witness ==
    /\ pc = "accepted"
    /\ toks = ExInline
    /\ kind = "Inline"
    /\ Len(payload.items) = 1

----------------------------------------------------------------------------
ExPassive == <<LPAREN, KW("elem"), KW("func"), ID("$f"), ID("$g"), RPAREN>>
ExActive ==
    <<LPAREN, KW("elem"),
      LPAREN, KW("offset"), LPAREN, KW("i32.const"), INT("0"), RPAREN, RPAREN,
      KW("func"), ID("$f"), RPAREN>>

(* C2: Elem::parse produces ElemKind::Active only when the token after
   `elem` and the optional name is a number or an opening parenthesis, and
   ElemKind::Passive in every other case, with no table index and no offset
   consumed before the payload; an accepted segment is Active exactly when
   that token is a number or `(`.  `(elem func $f $g)` is Passive and
   `(elem (offset (i32.const 0)) func $f)` is Active. *)
C2_ActiveIffNumberOrParen ==
    IsElem =>
      LET q == ElemBranchPos(toks)
          act == IsU32(TokAt(toks, q)) \/ IsLParen(TokAt(toks, q))
      IN  /\ kind \in {"", "Active", "Passive"}
          /\ kind = "Active" => act
          /\ kind = "Passive" =>
               ~act /\ table = None /\ etable = None /\ offset = None
          /\ (pc = "payload" /\ kind = "Passive") => pos = q
          /\ (~act /\ pc \notin {"elem_kw", "elem_name", "elem_kind"}) =>
               kind = "Passive"
          /\ pc = "accepted" => (kind = "Active" <=> act)
          /\ (Final /\ toks = ExPassive) =>
               /\ pc = "accepted"
               /\ kind = "Passive"
               /\ payload = Indices(<<IndexId("$f"), IndexId("$g")>>)
          /\ (Final /\ toks = ExActive) =>
               /\ pc = "accepted"
               /\ kind = "Active"
               /\ etable = Some(IndexNum(0))

C2_Witness ==
    /\ pc = "accepted"
    /\ toks = ExPassive
    /\ kind = "Passive"
    /\ Len(payload.items) = 2

ExDefault ==
    <<LPAREN, KW("elem"),
      LPAREN, KW("offset"), LPAREN, KW("i32.const"), INT("5"), RPAREN, RPAREN,
      ID("$f"), RPAREN>>
ExExplicit ==
    <<LPAREN, KW("elem"), LPAREN, KW("table"), INT("0"), RPAREN,
      LPAREN, KW("offset"), LPAREN, KW("i32.const"), INT("5"), RPAREN, RPAREN,
      ID("$f"), RPAREN>>

(* The target the text names at position q: the index inside a leading
   `(table ..)` group, else a bare number, else the numeral 0 *)
ExpectedTarget(ts, q) ==
    IF IsLParen(TokAt(ts, q)) /\ IsKw(TokAt(ts, q + 1), "table")
      THEN IndexVal(TokAt(ts, q + 2))
      ELSE IF IsU32(TokAt(ts, q))
        THEN IndexNum(U32Val(Text(TokAt(ts, q))))
        ELSE IndexNum(0)

(* C3: the target of every active segment is the index inside the leading
   `(table ..)` group if there is one, else the bare number that follows
   the name, else the numeral 0; `(elem (offset (i32.const 5)) $f)` and
   `(elem (table 0) (offset (i32.const 5)) $f)` are both accepted as Active
   with table = Num(0) and the same offset. *)
C3_TargetIndex ==
    IsElem =>
      /\ kind = "Active" =>
           etable = Some(ExpectedTarget(toks, ElemBranchPos(toks)))
      /\ (Final /\ toks \in {ExDefault, ExExplicit}) =>
           /\ pc = "accepted"
           /\ kind = "Active"
           /\ etable = Some(IndexNum(0))
           /\ offset = Some(<<[op |-> "i32.const", arg |-> 5]>>)
           /\ payload = Indices(<<IndexId("$f")>>)

C3_Witness ==
    /\ pc = "accepted"
    /\ toks = ExDefault
    /\ kind = "Active"
    /\ table = None
    /\ etable = Some(IndexNum(0))

ExInlineEmpty ==
    <<LPAREN, KW("table"), KW("anyref"), LPAREN, KW("elem"), RPAREN, RPAREN>>
ExInlineExprs ==
    <<LPAREN, KW("table"), KW("anyref"), LPAREN, KW("elem"),
      LPAREN, KW("ref.func"), ID("$f"), RPAREN,
      LPAREN, KW("ref.null"), RPAREN, RPAREN, RPAREN>>

(* C4: in the inline form the element type must be followed by a group that
   begins with `elem`; if the token after `elem` opens a parenthesis the
   payload is an expression list whose type is the table's element type,
   otherwise it is an index list; a group that closes right after `elem`
   gives an empty payload. *)
C4_InlinePayloadForm ==
    IsTable =>
      LET p == BranchPos(toks)
          grp == IsLParen(TokAt(toks, p + 1)) /\ IsKw(TokAt(toks, p + 2), "elem")
      IN  /\ kind = "Inline" =>
                /\ grp
                /\ elem = Some(ElemTypeVal(Text(TokAt(toks, p))))
                /\ IF IsLParen(TokAt(toks, p + 3))
                     THEN payload.tag = "Exprs" /\ payload.ty = elem
                     ELSE payload.tag = "Indices" /\ payload.ty = None
                /\ IsRParen(TokAt(toks, p + 3)) => payload = Indices(<<>>)
          /\ (Final /\ IsElemType(TokAt(toks, p)) /\ ~grp) =>
                pc = "failed" /\ kind = ""
          /\ (Final /\ toks = ExInlineEmpty) =>
                /\ pc = "accepted"
                /\ kind = "Inline"
                /\ payload = Indices(<<>>)
          /\ (Final /\ toks = ExInlineExprs) =>
                /\ pc = "accepted"
                /\ kind = "Inline"
                /\ payload = Exprs("Anyref", <<Some(IndexId("$f")), None>>)

C4_Witness ==
    /\ pc = "accepted"
    /\ toks = ExInlineExprs
    /\ kind = "Inline"
    /\ payload.tag = "Exprs"
    /\ payload.ty = Some("Anyref")

----------------------------------------------------------------------------
(* The position of the `)` that closes the group whose interior starts at j *)
RECURSIVE CloseOf(_, _, _)
CloseOf(ts, j, d) ==
    IF j > Len(ts) THEN j
    ELSE IF IsLParen(ts[j]) THEN CloseOf(ts, j + 1, d + 1)
    ELSE IF IsRParen(ts[j])
      THEN IF d = 0 THEN j ELSE CloseOf(ts, j + 1, d - 1)
      ELSE CloseOf(ts, j + 1, d)

(* The position after the target of an elem segment whose head starts at q *)
TargetEnd(ts, q) ==
    IF IsLParen(TokAt(ts, q)) /\ IsKw(TokAt(ts, q + 1), "table") THEN q + 4
    ELSE IF IsU32(TokAt(ts, q)) THEN q + 1
    ELSE q

(* The position where the payload of an elem segment starts: right after the
   name when passive, after the target and the offset group when active *)
ElemPayloadPos(ts) ==
    LET q == ElemBranchPos(ts)
    IN  IF IsU32(TokAt(ts, q)) \/ IsLParen(TokAt(ts, q))
          THEN CloseOf(ts, TargetEnd(ts, q) + 1, 0) + 1
          ELSE q

(* The position where the payload of an inline table starts: after the
   element type, `(` and `elem` *)
InlinePayloadPos(ts) == BranchPos(ts) + 3

PayloadPos(ts) ==
    IF IsKw(ts[2], "table") THEN InlinePayloadPos(ts) ELSE ElemPayloadPos(ts)

(* The entries written from position i to the end of the group, in source
   order: as plain indices, and as expression groups *)
RECURSIVE IndexRun(_, _)
IndexRun(ts, i) ==
    IF IsEmptyAt(ts, i) THEN <<>>
    ELSE <<IndexVal(ts[i])>> \o IndexRun(ts, i + 1)

RECURSIVE ExprRun(_, _)
ExprRun(ts, i) ==
    IF IsEmptyAt(ts, i) THEN <<>>
    ELSE IF IsKw(TokAt(ts, i + 1), "ref.null")
      THEN <<None>> \o ExprRun(ts, i + 3)
      ELSE <<Some(IndexVal(TokAt(ts, i + 2)))>> \o ExprRun(ts, i + 4)

ExElemExprs ==
    <<LPAREN, KW("elem"), KW("funcref"),
      LPAREN, KW("ref.null"), RPAREN,
      LPAREN, KW("ref.func"), INT("2"), RPAREN, RPAREN>>

(* C5 as stated: parse_tail uses the expression list whenever an enclosing
   table definition consumed an element type, and the index list for every
   standalone elem segment. *)
C5_Original ==
    payload.tag # "None" =>
      /\ (IsTable /\ IsSome(elem)) => payload.tag = "Exprs"
      /\ IsElem => payload.tag = "Indices"

(* C5, amended: parse_tail uses the expression list exactly when its caller
   hands it an element type.  Table::parse hands over the table's element
   type only when the token after `elem` opens a parenthesis;
   ElemPayload::parse, which every standalone elem segment uses, hands over
   the element type the payload starts with, if it starts with one.
   Otherwise an optional leading `func` is consumed and the rest is a flat
   list of indices. *)
C5_ExprsIffTypeHanded ==
    LET s == PayloadPos(toks)
    IN  /\ payload.tag # "None" =>
             /\ payload.tag = "Exprs" <=> IsSome(ty)
             /\ payload.ty = ty
        /\ (IsTable /\ ret = "inline_close") =>
             ty = IF IsLParen(TokAt(toks, s)) THEN elem ELSE None
        /\ (IsElem /\ ret = "elem_ok") =>
             ty = IF IsElemType(TokAt(toks, s))
                    THEN Some(ElemTypeVal(Text(TokAt(toks, s))))
                    ELSE None
        /\ payload.tag = "Indices" =>
             payload.items =
               IndexRun(toks, IF IsKw(TokAt(toks, s), "func") THEN s + 1 ELSE s)
        /\ (Final /\ toks = ExElemExprs) =>
             /\ pc = "accepted"
             /\ payload = Exprs("Funcref", <<None, Some(IndexNum(2))>>)
        /\ (Final /\ toks = ExInline) =>
             /\ pc = "accepted"
             /\ payload = Indices(<<IndexId("$f")>>)

C5_Witness ==
    /\ pc = "accepted"
    /\ toks = ExElemExprs
    /\ kind = "Passive"
    /\ payload.tag = "Exprs"
    /\ Len(payload.items) = 2

----------------------------------------------------------------------------
(* parse_tail failed while reading an expression list *)
ExprsFailed == pc = "failed" /\ IsSome(ty) /\ payload.tag = "None"

ExNullTyped ==
    <<LPAREN, KW("table"), KW("funcref"), LPAREN, KW("elem"),
      LPAREN, KW("ref.null"), KW("funcref"), RPAREN, RPAREN, RPAREN>>
ExNullBare ==
    <<LPAREN, KW("table"), KW("funcref"), LPAREN, KW("elem"),
      LPAREN, KW("ref.null"), RPAREN, RPAREN, RPAREN>>
ExOtherGroup ==
    <<LPAREN, KW("table"), KW("funcref"), LPAREN, KW("elem"),
      LPAREN, KW("i32.const"), INT("0"), RPAREN, RPAREN, RPAREN>>
ExBareEntry ==
    <<LPAREN, KW("table"), KW("funcref"), LPAREN, KW("elem"),
      LPAREN, KW("ref.func"), ID("$f"), RPAREN, ID("$g"), RPAREN, RPAREN>>

(* C6 as stated: in the expression list an entry `(ref.null <type>)` is
   accepted and gives an absent entry, and every absent entry was written
   `(ref.null <type>)`. *)
C6_Original ==
    /\ ~(/\ ExprsFailed
         /\ IsLParen(TokAt(toks, pos - 2))
         /\ IsKw(TokAt(toks, pos - 1), "ref.null")
         /\ IsElemType(Cur)
         /\ IsRParen(TokAt(toks, pos + 1)))
    /\ (pc = "exprs_loop" /\ Len(items) > 0 /\ items[Len(items)] = None) =>
         /\ IsLParen(TokAt(toks, pos - 4))
         /\ IsKw(TokAt(toks, pos - 3), "ref.null")
         /\ IsElemType(TokAt(toks, pos - 2))
    /\ (Final /\ toks = ExNullTyped) => pc = "accepted"

(* C6, amended: every entry of an expression list is one parenthesized
   group of one of two shapes: `(ref.null)`, with no operand, gives an
   absent entry, and `(ref.func <index>)` gives a present entry holding that
   index.  `(ref.null <type>)` is rejected at the type, where the group had
   to close; a group that starts with any other token fails with the error
   of the lookahead set; a token that is not a parenthesis in entry position
   fails. *)
C6_EntryShapes ==
    /\ (pc = "exprs_loop" /\ Len(items) > 0) =>
         LET e == items[Len(items)]
         IN  /\ IsRParen(TokAt(toks, pos - 1))
             /\ IF e = None
                  THEN /\ IsLParen(TokAt(toks, pos - 3))
                       /\ IsKw(TokAt(toks, pos - 2), "ref.null")
                  ELSE /\ IsLParen(TokAt(toks, pos - 4))
                       /\ IsKw(TokAt(toks, pos - 3), "ref.func")
                       /\ IsIndex(TokAt(toks, pos - 2))
                       /\ e = Some(IndexVal(TokAt(toks, pos - 2)))
    /\ (ExprsFailed /\ IsLParen(TokAt(toks, pos - 1))) =>
         /\ ~IsKw(Cur, "ref.null") /\ ~IsKw(Cur, "ref.func")
         /\ err = Error(pos, "expected one of", <<"ref.null", "ref.func">>)
    /\ (ExprsFailed /\ IsKw(TokAt(toks, pos - 1), "ref.null")) => ~IsRParen(Cur)
    /\ (Final /\ toks = ExNullBare) =>
         pc = "accepted" /\ payload = Exprs("Funcref", <<None>>)
    /\ (Final /\ toks = ExNullTyped) =>
         pc = "failed" /\ err = Error(8, "expected )", <<>>)
    /\ (Final /\ toks = ExOtherGroup) =>
         /\ pc = "failed"
         /\ err = Error(7, "expected one of", <<"ref.null", "ref.func">>)
    /\ (Final /\ toks = ExBareEntry) =>
         pc = "failed" /\ err = Error(10, "expected (", <<>>)
    /\ (Final /\ toks = ExInlineExprs) =>
         /\ pc = "accepted"
         /\ payload = Exprs("Anyref", <<Some(IndexId("$f")), None>>)

C6_Witness ==
    /\ pc = "accepted"
    /\ toks = ExNullBare
    /\ payload.tag = "Exprs"
    /\ payload.items = <<None>>

(* The entries the text of the field lists, in source order *)
SourceEntries(ts, tag) ==
    LET s == PayloadPos(ts)
    IN  IF tag = "Exprs"
          THEN ExprRun(ts, IF IsKw(ts[2], "elem") THEN s + 1 ELSE s)
          ELSE IndexRun(ts, IF IsKw(TokAt(ts, s), "func") THEN s + 1 ELSE s)

(* C7: the item sequence parse_tail builds equals the entries of the
   payload in source order, position by position, with the same length:
   nothing is reordered, dropped, duplicated or deduplicated; parse_tail
   returns only at the end of the enclosing group. *)
C7_OrderPreserved ==
    /\ payload.tag # "None" =>
         /\ payload.items = SourceEntries(toks, payload.tag)
         /\ Len(payload.items) = Len(SourceEntries(toks, payload.tag))
    /\ pc \in {"inline_close", "elem_ok"} => IsEmpty /\ payload.items = items
    /\ pc \in {"exprs_loop", "indices_loop"} =>
         \A i \in 1..Len(items) : items[i] = SourceEntries(toks,
                          IF IsSome(ty) THEN "Exprs" ELSE "Indices")[i]

C7_Witness ==
    /\ pc = "accepted"
    /\ payload.tag = "Indices"
    /\ payload.items = <<IndexId("$g"), IndexId("$f")>>

----------------------------------------------------------------------------
ExBare == <<LPAREN, KW("table"), RPAREN>>

(* C8: when the token after `table`, the name and the exports is neither an
   element type nor a number nor an opening parenthesis, Table::parse fails
   and returns no Table; the error is the one the lookahead set builds after
   its three probes, and it stands at the cursor right after the name and
   the exports, which is past the start of the construct; `(table)` fails
   there. *)
C8_NoAlternativeError ==
    IsTable =>
      LET p == BranchPos(toks)
          t == TokAt(toks, p)
          none == ~IsElemType(t) /\ ~IsU32(t) /\ ~IsLParen(t)
      IN  /\ none => kind = "" /\ pc # "accepted" /\ pc # "table_ok"
          /\ (none /\ Final) =>
               /\ pc = "failed"
               /\ err = Error(p, "expected one of",
                              <<"TableElemType", "u32", "LParen">>)
               /\ pos = p
               /\ p > Unwrap(span)
          /\ (IsSome(err) /\ Len(Unwrap(err).expected) = 3) => none
          /\ (Final /\ toks = ExBare) =>
               pc = "failed" /\ Unwrap(err).at = 3 /\ pos = 3

C8_Witness ==
    /\ pc = "failed"
    /\ toks = ExBare
    /\ attempts = <<"TableElemType", "u32", "LParen">>
    /\ Unwrap(err).at = 3

ExNoKeyword ==
    <<LPAREN, KW("elem"),
      LPAREN, LPAREN, KW("i32.const"), INT("5"), RPAREN, RPAREN,
      ID("$f"), RPAREN>>

(* The instructions a well-formed offset body denotes: one i32.const per
   integer literal, in order *)
RECURSIVE InstrsOf(_)
InstrsOf(b) ==
    IF Len(b) = 0 THEN <<>>
    ELSE IF IsU32(Head(b))
      THEN <<[op |-> "i32.const", arg |-> U32Val(Text(Head(b)))]>>
             \o InstrsOf(Tail(b))
      ELSE InstrsOf(Tail(b))

(* The interior of the group that opens at position r *)
GroupBody(ts, r) == SubSeq(ts, r + 1, CloseOf(ts, r + 1, 0) - 1)

StripOffset(b) == IF Len(b) > 0 /\ IsKw(Head(b), "offset") THEN Tail(b) ELSE b

(* C9: the offset of an active segment is a required parenthesized
   expression: without a group after the target, parsing fails.  A leading
   `offset` inside the group is optional and discarded: the offset is the
   expression of the rest of the group, so `(offset E)` and `(E)` give the
   same offset and the same Active value for the same target. *)
C9_OffsetKeywordOptional ==
    IsElem =>
      LET q == ElemBranchPos(toks)
          act == IsU32(TokAt(toks, q)) \/ IsLParen(TokAt(toks, q))
          r == TargetEnd(toks, q)
      IN  /\ kind = "Active" =>
               /\ IsLParen(TokAt(toks, r))
               /\ offset = Some(InstrsOf(StripOffset(GroupBody(toks, r))))
               /\ etable = Some(ExpectedTarget(toks, q))
          /\ (Final /\ act /\ ~IsLParen(TokAt(toks, r))) =>
               pc = "failed" /\ kind = "" /\ offset = None
          /\ (Final /\ toks \in {ExDefault, ExNoKeyword}) =>
               /\ pc = "accepted"
               /\ kind = "Active"
               /\ etable = Some(IndexNum(0))
               /\ offset = Some(<<[op |-> "i32.const", arg |-> 5]>>)
               /\ payload = Indices(<<IndexId("$f")>>)

C9_Witness ==
    /\ pc = "accepted"
    /\ toks = ExNoKeyword
    /\ kind = "Active"
    /\ offset = Some(<<[op |-> "i32.const", arg |-> 5]>>)

(* The parser calls that only choose a branch *)
ProbePcs ==
    {"table_look", "inline_peek", "elem_kind", "elem_table", "tail",
     "exprs_loop", "expr_look", "indices_loop"}

(* The parser calls that parse an optional token: a probe of the token at
   the cursor and, when it matches, the parse of that token *)
OptionalPcs == {"table_name", "elem_name", "offset_kw", "payload", "indices_func"}

OptionalMatches ==
    \/ pc \in {"table_name", "elem_name"} /\ IsId(Cur)
    \/ pc = "offset_kw" /\ IsKw(Cur, "offset")
    \/ pc = "payload" /\ IsElemType(Cur)
    \/ pc = "indices_func" /\ IsKw(Cur, "func")

(* C10 as first stated: the calls that choose a branch leave the cursor
   where it is, and along every run, accepted or failed, the cursor never
   moves back and the token stream is never changed. *)
C10_Original ==
    [][/\ pos' >= pos
       /\ toks' = toks
       /\ pc \in ProbePcs => pos' = pos]_vars

(* C10: the grammar never backtracks.  The token stream is never changed;
   a call that chooses a branch leaves the cursor where it is; an optional
   token is consumed exactly when the token at the cursor is of its class;
   no call that returns Ok moves the cursor back; and the first Err ends the
   run: it is handed to the caller, no other branch is tried and no token is
   read again, the cursor being left where the error stands or set back to
   the opening of the enclosing group, as the parser core's parens does. *)
C10_NoBacktrackInGrammar ==
    [][/\ toks' = toks
       /\ pc \in ProbePcs => pos' = pos
       /\ pc \in OptionalPcs =>
            /\ pc' # "failed"
            /\ pos' = pos + (IF OptionalMatches THEN 1 ELSE 0)
       /\ pc' \notin {"failed", "returned", "rejected"} => pos' >= pos
       /\ pc = "failed" =>
            /\ pc' = "returned"
            /\ pos' \in {pos, OutermostOpen(toks, pos)}
       /\ pc = "returned" =>
            /\ pc' = "rejected"
            /\ pos' \in {pos, FieldOpen}
       /\ pc \in {"failed", "returned"} => err' = err /\ ast' = ast
       /\ pc \notin {"accepted", "rejected"}]_vars

(* A run that chose the Active branch, consumed the offset group and failed
   on the payload: the Err has left through parens and nothing was retried *)
C10_Witness ==
    /\ pc = "returned"
    /\ IsElem
    /\ kind = "Active"
    /\ IsSome(offset)
    /\ IsSome(err)
    /\ Unwrap(err).at > ElemPayloadPos(toks)

(* `(elem $t (i32.const 0) $f)` and a named segment followed by `func` *)
ExNamedActive ==
    <<LPAREN, KW("elem"), ID("$t"), LPAREN, KW("i32.const"), INT("0"), RPAREN,
      ID("$f"), RPAREN>>
ExNamedPassive ==
    <<LPAREN, KW("elem"), ID("$t"), KW("func"), ID("$f"), RPAREN>>

(* A `(table <id>)` group stands at position q *)
SymbolicGroupAt(ts, q) ==
    /\ IsLParen(TokAt(ts, q))
    /\ IsKw(TokAt(ts, q + 1), "table")
    /\ IsId(TokAt(ts, q + 2))

(* C12: in Elem::parse an identifier right after `elem` is always taken as
   the name of the segment and never as its target table: a symbolic target
   comes only from a `(table $t)` group, the bare-token target is a number,
   and a named segment followed by neither a number nor a parenthesis is
   Passive; `(elem $t (i32.const 0) $f)` has name $t and the numeric target
   0. *)
C12_IdentifierIsName ==
    IsElem =>
      LET q == ElemBranchPos(toks)
          group == IsLParen(TokAt(toks, q)) /\ IsKw(TokAt(toks, q + 1), "table")
          named == pc \notin {"elem_kw", "elem_name"}
      IN  /\ named =>
               name = IF IsId(TokAt(toks, 3))
                        THEN Some(Text(TokAt(toks, 3))) ELSE None
          /\ \A t \in {table, etable} :
               IsSome(t) /\ Unwrap(t).tag = "Id" => SymbolicGroupAt(toks, q)
          /\ IsSome(table) /\ ~group =>
               /\ IsU32(TokAt(toks, q))
               /\ table = Some(IndexNum(U32Val(Text(TokAt(toks, q)))))
          /\ IsSome(etable) /\ ~group => Unwrap(etable).tag = "Num"
          /\ /\ IsId(TokAt(toks, 3))
             /\ ~IsU32(TokAt(toks, 4)) /\ ~IsLParen(TokAt(toks, 4))
             /\ pc \notin {"elem_kw", "elem_name", "elem_kind"}
             => kind = "Passive" /\ table = None /\ etable = None
          /\ Final /\ toks = ExNamedActive =>
               /\ pc = "accepted"
               /\ name = Some("$t")
               /\ kind = "Active"
               /\ etable = Some(IndexNum(0))
               /\ payload = Indices(<<IndexId("$f")>>)
          /\ Final /\ toks = ExNamedPassive =>
               /\ pc = "accepted"
               /\ name = Some("$t")
               /\ kind = "Passive"
               /\ payload = Indices(<<IndexId("$f")>>)

C12_Witness ==
    /\ pc = "accepted"
    /\ toks = ExNamedActive
    /\ name = Some("$t")
    /\ kind = "Active"
    /\ etable = Some(IndexNum(0))

-----------------------------------------------------------------------------
(* binary_compare (tests/wabt.rs).  Bytes are numbers 0..255 and positions  *)
(* are the 0-based positions of the Rust code: At(b, i) is b[i].            *)

At(b, i) == b[i + 1]

(* bytes[lo..hi] *)
Slice(b, lo, hi) == SubSeq(b, lo + 1, hi)

(* bytes.drain(lo..hi) *)
Drain(b, lo, hi) == Slice(b, 0, lo) \o Slice(b, hi, Len(b))

Pow128(k) == 128 ^ k

(* The 4-byte magic constant and the two version constants the section     *)
(* reader accepts                                                          *)
WasmMagic == <<0, 97, 115, 109>>
WasmVersions == {<<1, 0, 0, 0>>, <<13, 0, 0, 0>>}
WasmHeader == WasmMagic \o <<1, 0, 0, 0>>
HeaderLen == Len(WasmHeader)

(* The name of the custom section that holds debug names: "name" *)
NameName == <<110, 97, 109, 101>>

(* The section codes of the custom and of the data count section, and the  *)
(* greatest section code the reader knows                                  *)
CustomCode == 0
DataCountCode == 12
MaxSectionCode == 12

ReadFailed == [ok |-> FALSE]

(* A variable-length unsigned 32-bit integer (LEB128) at position i, k     *)
(* bytes of it already read                                                *)
RECURSIVE ReadVarU32(_, _, _)
ReadVarU32(b, i, k) ==
    IF i >= Len(b) THEN ReadFailed
    ELSE
      LET byte == At(b, i)
      IN  IF byte < 128
            THEN IF k = 4 /\ byte >= 16
                   THEN ReadFailed
                   ELSE [ok |-> TRUE, val |-> byte * Pow128(k), next |-> i + 1]
            ELSE IF k = 4 THEN ReadFailed
            ELSE
              LET r == ReadVarU32(b, i + 1, k + 1)
              IN  IF r.ok
                    THEN [ok |-> TRUE,
                          val |-> (byte % 128) * Pow128(k) + r.val,
                          next |-> r.next]
                    ELSE ReadFailed

(* ModuleReader::new(bytes): Ok when the header is there *)
ModuleReaderNew(b) ==
    /\ Len(b) >= HeaderLen
    /\ Slice(b, 0, 4) = WasmMagic
    /\ Slice(b, 4, 8) \in WasmVersions

(* ModuleReader::read at position i: the one-byte code, the byte length,   *)
(* for a custom section its name, then the payload, which must end inside  *)
(* the buffer.  `start` is current_position() before the read and `end` is *)
(* range().end of the section read.  A custom name that runs past its      *)
(* payload is taken as a failed read; no input holds one.                  *)
ModuleReaderRead(b, i) ==
    IF i >= Len(b) \/ At(b, i) > MaxSectionCode THEN ReadFailed
    ELSE
      LET code == At(b, i)
          len == ReadVarU32(b, i + 1, 0)
      IN  IF ~len.ok \/ len.next + len.val > Len(b) THEN ReadFailed
          ELSE IF code # CustomCode
            THEN [ok |-> TRUE, code |-> code, name |-> <<>>,
                  start |-> i, end |-> len.next + len.val]
          ELSE
            LET nl == ReadVarU32(b, len.next, 0)
            IN  IF ~nl.ok \/ nl.next + nl.val > len.next + len.val
                  THEN ReadFailed
                  ELSE [ok |-> TRUE, code |-> code,
                        name |-> Slice(b, nl.next, nl.next + nl.val),
                        start |-> i, end |-> len.next + len.val]

(* The loop of contains_datacount_section, the reader at position i *)
RECURSIVE ContainsDatacountFrom(_, _)
ContainsDatacountFrom(b, i) ==
    LET s == ModuleReaderRead(b, i)
    IN  IF ~s.ok THEN FALSE
        ELSE IF s.code = DataCountCode THEN TRUE
        ELSE ContainsDatacountFrom(b, s.end)

contains_datacount_section(b) ==
    ModuleReaderNew(b) /\ ContainsDatacountFrom(b, HeaderLen)

(* The loop of remove_name_section, the reader at position i *)
RECURSIVE RemoveNameFrom(_, _)
RemoveNameFrom(b, i) ==
    LET s == ModuleReaderRead(b, i)
    IN  IF ~s.ok THEN b
        ELSE IF s.code = CustomCode /\ s.name = NameName
          THEN Drain(b, s.start, s.end)
        ELSE RemoveNameFrom(b, s.end)

remove_name_section(b) ==
    IF ModuleReaderNew(b) THEN RemoveNameFrom(b, HeaderLen) ELSE b

(* The loop of remove_datacount_section, the reader at position i *)
RECURSIVE RemoveDatacountFrom(_, _)
RemoveDatacountFrom(b, i) ==
    LET s == ModuleReaderRead(b, i)
    IN  IF ~s.ok THEN b
        ELSE IF s.code = DataCountCode THEN Drain(b, s.start, s.end)
        ELSE RemoveDatacountFrom(b, s.end)

remove_datacount_section(b) ==
    IF ModuleReaderNew(b) THEN RemoveDatacountFrom(b, HeaderLen) ELSE b

(* actual.iter().enumerate().zip(&expected).find(|..| actual != expected):  *)
(* the first position, below both lengths, where the bytes differ          *)
FindDifference(a, e) ==
    LET n == IF Len(a) < Len(e) THEN Len(a) ELSE Len(e)
        ds == {i \in 0..(n - 1) : At(a, i) # At(e, i)}
    IN  IF ds = {} THEN None
        ELSE Some(CHOOSE i \in ds : \A j \in ds : i <= j)

(* let actual = remove_name_section(actual); *)
CmpRemoveName ==
    /\ cpc = "remove_name"
    /\ nactual' = Some(remove_name_section(actual))
    /\ cpc' = "datacount"
    /\ UNCHANGED <<actual, expected, nexpected, difference, report, result>>
    /\ UNCHANGED parserVars


(* CmpDatacount dropping the data count section of `expected` whatever
   `actual` holds *)
CmpDatacount_AlwaysRemove ==
    /\ cpc = "datacount"
    /\ nexpected' = Some(remove_datacount_section(expected))
    /\ cpc' = "equal"
    /\ UNCHANGED <<actual, expected, nactual, difference, report, result>>
    /\ UNCHANGED parserVars

(* let expected = if contains_datacount_section(&actual) { expected.to_vec() }
   else { remove_datacount_section(expected) }; *)
CmpDatacount ==
    /\ cpc = "datacount"
    /\ nexpected' = IF contains_datacount_section(Unwrap(nactual))
                      THEN Some(expected)
                      ELSE Some(remove_datacount_section(expected))
    /\ cpc' = "equal"
    /\ UNCHANGED <<actual, expected, nactual, difference, report, result>>
    /\ UNCHANGED parserVars

(* if actual == expected { return Ok(()); }  let difference = ..find(..); *)
CmpEqual ==
    /\ cpc = "equal"
    /\ IF nactual = nexpected
         THEN /\ result' = "Ok"
              /\ cpc' = "done"
              /\ difference' = difference
         ELSE /\ result' = result
              /\ cpc' = "report"
              /\ difference' = FindDifference(Unwrap(nactual), Unwrap(nexpected))
    /\ UNCHANGED <<actual, expected, nactual, nexpected, report>>
    /\ UNCHANGED parserVars

(* if let Some(((pos, _), _)) = difference { msg.push_str(..) x 4 }: pos is
   a usize, so pos - 2 and pos - 1 below zero abort the call (the
   subtraction panics when overflow is checked and wraps to an index past
   the end, which panics, when it is not), and so does an index at or past
   the length of the vector it is used on. *)
CmpReport ==
    /\ cpc = "report"
    /\ IF difference = None
         THEN report' = report /\ cpc' = "states" /\ result' = result
         ELSE
           LET p == Unwrap(difference)
               a == Unwrap(nactual)
               e == Unwrap(nexpected)
           IN  IF /\ p - 2 >= 0 /\ p - 2 < Len(a)
                  /\ p - 1 >= 0 /\ p - 1 < Len(a)
                  /\ p < Len(e)
                  /\ p < Len(a)
                 THEN /\ report' = <<<<p - 2, At(a, p - 2)>>,
                                     <<p - 1, At(a, p - 1)>>,
                                     <<p, At(e, p)>>, <<p, At(a, p)>>>>
                      /\ cpc' = "states"
                      /\ result' = result
                 ELSE report' = report /\ cpc' = "done" /\ result' = "panic"
    /\ UNCHANGED <<actual, expected, nactual, nexpected, difference>>
    /\ UNCHANGED parserVars

(* The loop over the two decoders, which pushes up to five pairs of decoder
   states on msg as text and indexes neither vector, then
   anyhow::bail!("{}", msg) *)
CmpBail ==
    /\ cpc = "states"
    /\ result' = "Err"
    /\ cpc' = "done"
    /\ UNCHANGED <<actual, expected, nactual, nexpected, difference, report>>
    /\ UNCHANGED parserVars

(* The inputs: modules made of a header and up to MaxSections sections out *)
(* of a custom "name" section, another custom section, a data count        *)
(* section, a type section, a function section whose length takes two      *)
(* bytes, and a code section that declares more bytes than it has; and     *)
(* byte sequences that are no module.                                      *)
MaxSections == 2

NameSection == <<0, 5, 4>> \o NameName
OtherCustomSection == <<0, 2, 1, 120>>
DataCountSection == <<12, 1, 0>>
TypeSection == <<1, 1, 0>>
TwoByteLenSection == <<3, 129, 0, 0>>
ShortCodeSection == <<10, 127, 0>>

SectionBytes ==
    {NameSection, OtherCustomSection, DataCountSection, TypeSection,
     TwoByteLenSection, ShortCodeSection}

Modules ==
    {WasmHeader \o Cat(ss) : ss \in SeqsUpTo(SectionBytes, MaxSections)}

NotModules ==
    {<<>>, <<1>>, <<2>>, <<0, 97>>, <<0, 98>>,
     WasmMagic \o <<2, 0, 0, 0>> \o DataCountSection,
     WasmMagic \o <<13, 0, 0, 0>> \o DataCountSection}

ByteInputs == Modules \cup NotModules

ParserIdle ==
    /\ toks = <<>>
    /\ pos = 0
    /\ pc = "idle"
    /\ span = None
    /\ name = None
    /\ exports = <<>>
    /\ kind = ""
    /\ import = None
    /\ tabty = None
    /\ elem = None
    /\ payload = NoPayload
    /\ table = None
    /\ etable = None
    /\ offset = None
    /\ ty = None
    /\ items = <<>>
    /\ item = None
    /\ ret = ""
    /\ attempts = <<>>
    /\ err = None
    /\ rewinds = FALSE

InitCmp ==
    /\ ParserIdle
    /\ actual \in ByteInputs
    /\ expected \in ByteInputs
    /\ nactual = None
    /\ nexpected = None
    /\ difference = None
    /\ report = <<>>
    /\ cpc = "remove_name"
    /\ result = ""

NextCmp == CmpRemoveName \/ CmpDatacount \/ CmpEqual \/ CmpReport \/ CmpBail

SpecCmp == InitCmp /\ [][NextCmp]_vars

(* The sections of a byte sequence, in order, up to the first one that
   cannot be read; none when the header is not there *)
RECURSIVE SectionsFrom(_, _)
SectionsFrom(b, i) ==
    LET s == ModuleReaderRead(b, i)
    IN  IF ~s.ok THEN <<>> ELSE <<s>> \o SectionsFrom(b, s.end)

SectionsOf(b) == IF ModuleReaderNew(b) THEN SectionsFrom(b, HeaderLen) ELSE <<>>

NameSectionsOf(b) ==
    {k \in DOMAIN SectionsOf(b) :
       SectionsOf(b)[k].code = CustomCode /\ SectionsOf(b)[k].name = NameName}

DataCountSectionsOf(b) ==
    {k \in DOMAIN SectionsOf(b) : SectionsOf(b)[k].code = DataCountCode}

(* b with the first of the sections ks taken out, code and length included *)
WithoutFirst(b, ks) ==
    IF ks = {} THEN b
    ELSE
      LET s == SectionsOf(b)[CHOOSE k \in ks : \A l \in ks : k <= l]
          n == s.end - s.start
      IN  [k \in 1..(Len(b) - n) |-> IF k <= s.start THEN b[k] ELSE b[k + n]]

(* A and E of the comparison *)
NormalizedActual == WithoutFirst(actual, NameSectionsOf(actual))
NormalizedExpected ==
    IF DataCountSectionsOf(NormalizedActual) # {}
      THEN expected
      ELSE WithoutFirst(expected, DataCountSectionsOf(expected))

ModTypeName == WasmHeader \o TypeSection \o NameSection
ModType == WasmHeader \o TypeSection
ModCountType == WasmHeader \o DataCountSection \o TypeSection

(* C11: binary_compare returns Ok exactly when A = E, where A is `actual`
   without its first custom "name" section and E is `expected` as it is when
   A holds a data count section, and `expected` without its first data count
   section otherwise: a produced binary that differs from the reference only
   by its name section, or only by the reference's data count section,
   compares equal, and a data count section of the produced binary is not
   ignored. *)
C11_OkIffNormalizedEqual ==
    /\ IsSome(nactual) => nactual = Some(NormalizedActual)
    /\ IsSome(nexpected) => nexpected = Some(NormalizedExpected)
    /\ cpc = "done" =>
         /\ IsSome(nactual) /\ IsSome(nexpected)
         /\ result = "Ok" <=> NormalizedActual = NormalizedExpected
         /\ actual = ModTypeName /\ expected = ModType => result = "Ok"
         /\ actual = ModType /\ expected = ModCountType => result = "Ok"
         /\ actual = ModCountType /\ expected = ModCountType => result = "Ok"
         /\ actual = ModCountType /\ expected = ModType => result # "Ok"
         /\ actual = ModType /\ expected = ModTypeName => result # "Ok"

C11_Witness ==
    /\ cpc = "done"
    /\ result = "Ok"
    /\ actual = ModTypeName
    /\ expected = ModCountType
    /\ nactual = Some(ModType)
    /\ nexpected = Some(ModType)

(* C13: when the normalized forms differ binary_compare returns an Err and
   never aborts: every index it uses for the report (pos - 2, pos - 1 and
   pos into the normalized actual, pos into the normalized expected) is in
   range, also when the first differing byte is at position 0 or 1 and when
   one sequence is a strict prefix of the other. *)
C13_ReportIndicesInRange ==
    /\ cpc = "report" /\ IsSome(difference) =>
         LET p == Unwrap(difference)
         IN  /\ p - 2 >= 0 /\ p - 2 < Len(Unwrap(nactual))
             /\ p - 1 >= 0 /\ p - 1 < Len(Unwrap(nactual))
             /\ p < Len(Unwrap(nactual))
             /\ p < Len(Unwrap(nexpected))
    /\ cpc = "done" /\ nactual # nexpected => result = "Err"

(* The call aborted on a difference in the first byte *)
C13_Witness ==
    /\ cpc = "done"
    /\ result = "panic"
    /\ actual = <<1>>
    /\ expected = <<2>>
    /\ difference = Some(0)

====
